---- MODULE Spec2Model ----
(***************************************************************************)
(* A model of connectors and conditions of the stream processor:           *)
(*   - the Bloblang generator input   (lib/input/bloblang.go),             *)
(*   - the DynamoDB PartiQL writer    (lib/output/writer, known through    *)
(*                                     its tests and the design document), *)
(*   - the SFTP writer                (lib/output/writer),                 *)
(*   - the Azure Blob Storage writer  (lib/output/writer),                 *)
(*   - the xor condition              (lib/condition, known through its    *)
(*                                     tests).                             *)
(* Each component has its own specification; the variables of the other    *)
(* components are pinned while one of them runs.                           *)
(***************************************************************************)
EXTENDS Integers, Sequences, FiniteSets, TLC

\* ---------------------------------------------------------------- bounds
\* largest configured count of the generator
MaxCount == 2
\* number of ReadWithContext calls a behaviour records
MaxCalls == 4
\* number of times one acknowledgment function is invoked
MaxAcks == 2
\* last instant of the wall clock
MaxTime == 3
\* the cron expression fires at every multiple of this many time units
CronEvery == 2
\* the duration of the configured interval
IntervalDuration == 2
\* number of goroutines calling ReadWithContext concurrently
MaxCallers == 2
\* largest number of child conditions of an xor condition
MaxChildren == 4

\* ======================================================================
\* Bloblang generator input
\* ======================================================================
\* variables of the Bloblang generator input
VARIABLES
    interval,     \* conf.Interval: "", "valid" or "invalid" (does not parse)
    cron,         \* conf.CronExpression: "", "valid" or "invalid"
    mapping,      \* conf.Mapping: "valid" or "invalid"
    newErr,       \* the error newBloblang returned, "none" if it returned a source
    now,          \* the wall-clock time
    period,       \* the duration the ticker was last armed with, 0 without a timer
    count,        \* conf.Count
    remaining,    \* Bloblang.remaining
    firstIsFree,  \* Bloblang.firstIsFree
    timer,        \* Bloblang.timer # nil
    schedule,     \* Bloblang.schedule # nil (cron mode)
    timerC,       \* ticks buffered in timer.C (a channel of capacity 1)
    stopped,      \* the ticker has been stopped and not reset since
    rpc,          \* position of the ReadWithContext call in flight
    ctxDone,      \* the context of the call in flight is cancelled
    entry,        \* remaining as it was when the call in flight started
    calls,        \* the ReadWithContext calls that returned, in order
    readers,      \* concurrent callers of ReadWithContext: position, value loaded
    closedAt      \* calls started before the first CloseAsync, -1 before it

confVars == <<interval, cron, mapping, newErr>>

bloblangVars == <<confVars, now, period, count, remaining, firstIsFree, timer, schedule, timerC,
                  stopped, rpc, ctxDone, entry, calls, readers,
                  closedAt>>

\* variables of the DynamoDB writer
VARIABLES
    dpc,         \* position of Write: "idle", "bulk", "individual", "done"
    msgLen,      \* number of records of the batch being written
    pending,     \* the next bulk attempt's batch: original indices, renumbered
    attempts,    \* bulk attempts that ended with per-record failures
    bulkCalls,   \* the bulk calls made: the statements sent and the outcome
    indivQueue,  \* records still to be written individually
    indivCalls,  \* the individual writes made: the record and the outcome
    headline,    \* the error of the bulk call that failed outright
    result       \* what Write returned

dynamoVars == <<dpc, msgLen, pending, attempts, bulkCalls, indivQueue,
                indivCalls, headline, result>>

\* variables of the SFTP writer
VARIABLES
    spc,                 \* NewSFTP: "dialing", "ready" (a writer exists), "failed"
    connectionAttempts,  \* initSFTPConnection: connectionAttempts
    connection_errors,   \* the counter "connection_errors"
    client_errors,       \* the counter "client_errors"
    client,              \* SFTP.client: "nil", "live", or "lost" (connection dropped)
    sftpErr,             \* why NewSFTP returned an error, "none" if it has not
    exists,              \* the paths that name a file on the server
    data,                \* the contents of the files on the server
    writeErr,            \* what the last per-record write returned
    connectLog           \* the last Connect call: the handle before and after

sftpVars == <<spc, connectionAttempts, connection_errors, client_errors,
              client, sftpErr, exists, data, writeErr, connectLog>>

\* variables of the xor condition
VARIABLES
    children,    \* what each child condition's Check returns on the message
    xorIdx,      \* number of children Check has evaluated
    hadTrue,     \* Check: a child has passed
    got          \* what Check returned: "none" while it runs, "true", "false"

xorVars == <<children, xorIdx, hadTrue, got>>

\* variables of the Azure Blob Storage writer
VARIABLES
    credsOk,     \* storage account name and key are both configured
    azpc,        \* position of WriteWithContext: "idle", "iter", "done"
    azMsg,       \* the batch: the blob type each record's expression yields
    azIdx,       \* index of the next record msg.Iter hands to the closure
    azLog,       \* the closure's runs: index, upload performed, error
    azCreates,   \* number of container Create calls
    azResult     \* what WriteWithContext returned

azureVars == <<credsOk, azpc, azMsg, azIdx, azLog, azCreates, azResult>>

CountRange == -1..MaxCount

ConfStrings == {"", "valid", "invalid"}

\* newBloblang: both interval and cron_expression are given
BothSetUnchecked(i, c) == FALSE
BothSet(i, c) == i # "" /\ c # ""

\* the instants at which the cron schedule fires
Scheduled == {t \in 1..(MaxTime + CronEvery + 1) : t % CronEvery = 0}

\* schedule.Next: the first scheduled instant after t
ScheduleNext(t) == CHOOSE s \in Scheduled :
                       s > t /\ \A u \in Scheduled : u > t => s <= u

\* getDurationTillNextSchedule, called at time t
DurationOfFullPeriod(t) == CronEvery
GetDurationTillNextSchedule(t) == ScheduleNext(t) - t

\* newBloblang, up to the count: the error, the timer and the schedule
NewBloblang(i, c, m, t) ==
    LET fail(e) == [err |-> e, timer |-> FALSE, schedule |-> FALSE, period |-> 0]
    IN  IF BothSet(i, c) THEN fail("only one of interval or cron_expression is allowed")
        ELSE IF c = "invalid" THEN fail("failed to parse cron_expression")
        ELSE IF i = "invalid" THEN fail("failed to parse interval")
        ELSE IF m = "invalid" THEN fail("failed to parse mapping")
        ELSE [err |-> "none",
              timer |-> (c # "" \/ i # ""),
              schedule |-> (c # ""),
              period |-> IF i # "" THEN IntervalDuration
                         ELSE IF c # "" THEN GetDurationTillNextSchedule(t) ELSE 0]

\* newBloblang: the remaining count of a fresh source
NewRemainingRaw(c) == c
NewRemaining(c) == IF c <= 0 THEN -1 ELSE c

\* newBloblang: the firstIsFree flag of a fresh source
NewFirstIsFree == TRUE

\* ReadWithContext: the count is checked and decremented on entry
ReadCountClosedOffByOne(r) == r >= 0 /\ r - 1 <= 0
ReadCountClosed(r) == r >= 0 /\ r - 1 < 0

RemainingAfterEntry(r) == IF r >= 0 THEN r - 1 ELSE r

\* ReadWithContext: the call has to wait for a tick
MustWaitAlways(free, t) == t
MustWait(free, t) == ~free /\ t

\* the acknowledgment function returned with a batch: returns nil, no effect
AckFnResult(previous) == "nil"

\* the outcomes of exec.MapPart
MapOutcomes == {"ok", "err", "nil"}

\* what ReadWithContext returns once it is past the wait, given MapPart's outcome
MapReturnNoNilCheck(m) ==
    CASE m = "ok"  -> [err |-> "nil",        why |-> "batch",  msgLen |-> 1, ack |-> TRUE]
      [] m = "err" -> [err |-> "MapErr",     why |-> "maperr", msgLen |-> 0, ack |-> FALSE]
      [] m = "nil" -> [err |-> "nil",        why |-> "batch",  msgLen |-> 0, ack |-> TRUE]
MapReturn(m) ==
    CASE m = "ok"  -> [err |-> "nil",        why |-> "batch",  msgLen |-> 1, ack |-> TRUE]
      [] m = "err" -> [err |-> "MapErr",     why |-> "maperr", msgLen |-> 0, ack |-> FALSE]
      [] m = "nil" -> [err |-> "ErrTimeout", why |-> "nodata", msgLen |-> 0, ack |-> FALSE]

CallRecord(ret, before, after, ticked, free, at, rearm) ==
    [err |-> ret.err, why |-> ret.why, msgLen |-> ret.msgLen, ack |-> ret.ack,
     before |-> before, after |-> after, ticked |-> ticked, free |-> free,
     at |-> at, rearm |-> rearm, acks |-> <<>>]

\* the goroutines that call ReadWithContext concurrently
Callers == 1..MaxCallers

IdleReader == [pc |-> "idle", before |-> 0, ticked |-> FALSE]
NoReaders == [c \in Callers |-> IdleReader]

\* the state newBloblang leaves: a source, or an error and no source
Constructed(b) ==
    /\ newErr = b.err
    /\ timer = b.timer
    /\ schedule = b.schedule
    /\ period = b.period
    /\ remaining = IF b.err = "none" THEN NewRemaining(count) ELSE -1
    /\ entry = remaining
    /\ rpc = IF b.err = "none" THEN "idle" ELSE "none"
    /\ firstIsFree = NewFirstIsFree
    /\ timerC = 0
    /\ stopped = FALSE
    /\ ctxDone = FALSE
    /\ calls = <<>>
    /\ readers = NoReaders
    /\ closedAt = -1

BloblangInit ==
    /\ interval \in ConfStrings
    /\ cron \in ConfStrings
    /\ mapping \in {"valid", "invalid"}
    /\ count \in CountRange
    /\ now = 0
    /\ Constructed(NewBloblang(interval, cron, mapping, now))

\* a source in cron mode
CronInit ==
    /\ interval = ""
    /\ cron = "valid"
    /\ mapping = "valid"
    /\ count \in {0, 1}
    /\ now = 0
    /\ Constructed(NewBloblang(interval, cron, mapping, now))

BloblangOff ==
    /\ interval = ""
    /\ cron = ""
    /\ mapping = "valid"
    /\ newErr = "none"
    /\ now = 0
    /\ period = 0
    /\ count = 0
    /\ remaining = -1
    /\ firstIsFree = TRUE
    /\ timer = FALSE
    /\ schedule = FALSE
    /\ timerC = 0
    /\ stopped = FALSE
    /\ rpc = "idle"
    /\ ctxDone = FALSE
    /\ entry = -1
    /\ calls = <<>>
    /\ readers = NoReaders
    /\ closedAt = -1

\* the part of ReadWithContext after the wait: the mapping runs and the call returns
ReadFinish(rem, before, ticked, free, m) ==
    /\ firstIsFree' = FALSE
    /\ period' = IF m = "ok" /\ schedule
                 THEN GetDurationTillNextSchedule(now) ELSE period
    /\ calls' = Append(calls, CallRecord(MapReturn(m), before, rem, ticked, free, now,
                                         IF m = "ok" /\ schedule THEN period' ELSE -1))
    /\ stopped' = IF m = "ok" /\ schedule THEN FALSE ELSE stopped
    /\ rpc' = "idle"
    /\ ctxDone' = FALSE

\* ReadWithContext up to the wait: returns Closed, blocks in the select, or
\* runs through to the end
ReadWithContext ==
    /\ UNCHANGED <<dynamoVars, sftpVars, xorVars, azureVars, readers, closedAt, confVars, now>>
    /\ rpc = "idle"
    /\ Len(calls) < MaxCalls
    /\ entry' = remaining
    /\ remaining' = RemainingAfterEntry(remaining)
    /\ IF ReadCountClosed(remaining)
       THEN /\ calls' = Append(calls,
                   CallRecord([err |-> "ErrTypeClosed", why |-> "count",
                               msgLen |-> 0, ack |-> FALSE],
                              remaining, remaining', FALSE, FALSE, now, -1))
            /\ UNCHANGED <<firstIsFree, stopped, rpc, ctxDone, timerC, period>>
       ELSE IF MustWait(firstIsFree, timer)
       THEN /\ rpc' = "waiting"
            /\ UNCHANGED <<firstIsFree, stopped, ctxDone, timerC, calls, period>>
       ELSE /\ \E m \in MapOutcomes :
                 ReadFinish(remaining', remaining, FALSE, TRUE, m)
            /\ UNCHANGED timerC
    /\ UNCHANGED <<count, timer, schedule>>

\* the select receives a tick from timer.C
ReadTick ==
    /\ UNCHANGED <<dynamoVars, sftpVars, xorVars, azureVars, readers, closedAt, confVars, now>>
    /\ rpc = "waiting"
    /\ timerC = 1
    /\ timerC' = 0
    /\ \E m \in MapOutcomes : ReadFinish(remaining, entry, TRUE, FALSE, m)
    /\ UNCHANGED <<count, remaining, timer, schedule, entry>>

\* the select receives from ctx.Done()
ReadCancelledIgnored ==
    /\ FALSE
    /\ UNCHANGED <<bloblangVars, dynamoVars, sftpVars, xorVars, azureVars>>
ReadCancelled ==
    /\ UNCHANGED <<dynamoVars, sftpVars, xorVars, azureVars, readers, closedAt, confVars, now, period>>
    /\ rpc = "waiting"
    /\ ctxDone
    /\ calls' = Append(calls,
           CallRecord([err |-> "ErrTimeout", why |-> "cancel",
                       msgLen |-> 0, ack |-> FALSE],
                      entry, remaining, FALSE, FALSE, now, -1))
    /\ rpc' = "idle"
    /\ ctxDone' = FALSE
    /\ UNCHANGED <<count, remaining, firstIsFree, timer, schedule, timerC,
                   stopped, entry>>

\* the caller cancels the context of the call in flight
CtxCancel ==
    /\ UNCHANGED <<dynamoVars, sftpVars, xorVars, azureVars, readers, closedAt, confVars, now, period>>
    /\ rpc = "waiting"
    /\ ~ctxDone
    /\ ctxDone' = TRUE
    /\ UNCHANGED <<count, remaining, firstIsFree, timer, schedule, timerC,
                   stopped, rpc, entry, calls>>

\* the running ticker delivers a tick; a tick is dropped when the buffer is full
Tick ==
    /\ UNCHANGED <<dynamoVars, sftpVars, xorVars, azureVars, readers, closedAt, confVars, now, period>>
    /\ timer
    /\ ~stopped
    /\ timerC = 0
    /\ timerC' = 1
    /\ UNCHANGED <<count, remaining, firstIsFree, timer, schedule, stopped,
                   rpc, ctxDone, entry, calls>>

\* CloseAsync stops the ticker
CloseAsync ==
    /\ UNCHANGED <<dynamoVars, sftpVars, xorVars, azureVars, readers, confVars, now, period>>
    /\ timer
    /\ ~stopped
    /\ stopped' = TRUE
    /\ closedAt' = IF closedAt = -1
                   THEN Len(calls) + (IF rpc = "waiting" THEN 1 ELSE 0)
                   ELSE closedAt
    /\ UNCHANGED <<count, remaining, firstIsFree, timer, schedule, timerC,
                   rpc, ctxDone, entry, calls>>

\* the acknowledgment function of the i-th returned call is invoked
AckFn(i) ==
    /\ UNCHANGED <<dynamoVars, sftpVars, xorVars, azureVars, readers, closedAt, confVars, now, period>>
    /\ i \in 1..Len(calls)
    /\ calls[i].ack
    /\ Len(calls[i].acks) < MaxAcks
    /\ calls' = [calls EXCEPT ![i].acks = Append(@, AckFnResult(@))]
    /\ UNCHANGED <<count, remaining, firstIsFree, timer, schedule, timerC,
                   stopped, rpc, ctxDone, entry>>

\* the wall clock advances
AdvanceClock ==
    /\ now < MaxTime
    /\ now' = now + 1
    /\ UNCHANGED <<dynamoVars, sftpVars, xorVars, azureVars, readers, closedAt, confVars, period, count, remaining,
                   firstIsFree, timer, schedule, timerC, stopped, rpc, ctxDone,
                   entry, calls>>

\* ----------------------------------------------------------------------
\* ReadWithContext called by several goroutines at once: the steps of one
\* call interleave with the steps of the others
\* ----------------------------------------------------------------------
\* a source without cron schedule, shared by the callers
ConcInit ==
    /\ interval \in {"", "valid"}
    /\ cron = ""
    /\ mapping = "valid"
    /\ count \in 1..MaxCount
    /\ now = 0
    /\ LET b == NewBloblang(interval, cron, mapping, now)
       IN  /\ newErr = b.err
           /\ timer = b.timer
           /\ schedule = b.schedule
           /\ period = b.period
    /\ remaining = NewRemaining(count)
    /\ entry = remaining
    /\ rpc = "concurrent"
    /\ firstIsFree = NewFirstIsFree
    /\ timerC = 0
    /\ stopped = FALSE
    /\ ctxDone = FALSE
    /\ calls = <<>>
    /\ readers = NoReaders
    /\ closedAt = -1

InFlight == Cardinality({c \in Callers : readers[c].pc # "idle"})

\* atomic.LoadInt32(&b.remaining) >= 0
LoadedNonNegative(r) == r >= 0

\* atomic.AddInt32(&b.remaining, -1) < 0
AddedNegative(r) == r - 1 < 0

ConcUnchanged == UNCHANGED <<dynamoVars, sftpVars, xorVars, azureVars, confVars, now,
                             period, count, timer, schedule, stopped, rpc, ctxDone,
                             entry, closedAt>>

\* caller c enters ReadWithContext and loads remaining
ConcLoad(c) ==
    /\ ConcUnchanged
    /\ rpc = "concurrent"
    /\ readers[c].pc = "idle"
    /\ Len(calls) + InFlight < MaxCalls
    /\ readers' = [readers EXCEPT ![c] =
                       [pc |-> IF LoadedNonNegative(remaining) THEN "add" ELSE "check",
                        before |-> remaining, ticked |-> FALSE]]
    /\ UNCHANGED <<remaining, firstIsFree, timerC, calls>>

\* caller c decrements remaining and returns Closed if the result is negative
ConcAdd(c) ==
    /\ ConcUnchanged
    /\ readers[c].pc = "add"
    /\ remaining' = remaining - 1
    /\ IF AddedNegative(remaining)
       THEN /\ calls' = Append(calls,
                   CallRecord([err |-> "ErrTypeClosed", why |-> "count",
                               msgLen |-> 0, ack |-> FALSE],
                              readers[c].before, remaining', FALSE, FALSE, now, -1))
            /\ readers' = [readers EXCEPT ![c] = IdleReader]
       ELSE /\ readers' = [readers EXCEPT ![c].pc = "check"]
            /\ UNCHANGED calls
    /\ UNCHANGED <<firstIsFree, timerC>>

\* caller c reads firstIsFree and the timer: it blocks in the select or goes on
ConcCheck(c) ==
    /\ ConcUnchanged
    /\ readers[c].pc = "check"
    /\ readers' = [readers EXCEPT ![c].pc =
                       IF MustWait(firstIsFree, timer) THEN "wait" ELSE "map"]
    /\ UNCHANGED <<remaining, firstIsFree, timerC, calls>>

\* caller c receives a tick from timer.C
ConcTick(c) ==
    /\ ConcUnchanged
    /\ readers[c].pc = "wait"
    /\ timerC = 1
    /\ timerC' = 0
    /\ readers' = [readers EXCEPT ![c].pc = "map", ![c].ticked = TRUE]
    /\ UNCHANGED <<remaining, firstIsFree, calls>>

\* caller c clears firstIsFree, runs the mapping and returns
ConcMap(c, m) ==
    /\ ConcUnchanged
    /\ readers[c].pc = "map"
    /\ firstIsFree' = FALSE
    /\ calls' = Append(calls, CallRecord(MapReturn(m), readers[c].before, remaining,
                                         readers[c].ticked, ~readers[c].ticked, now, -1))
    /\ readers' = [readers EXCEPT ![c] = IdleReader]
    /\ UNCHANGED <<remaining, timerC>>

ConcNext ==
    \/ \E c \in Callers : ConcLoad(c)
    \/ \E c \in Callers : ConcAdd(c)
    \/ \E c \in Callers : ConcCheck(c)
    \/ \E c \in Callers : ConcTick(c)
    \/ \E c \in Callers, m \in MapOutcomes : ConcMap(c, m)
    \/ Tick

BloblangNext ==
    \/ ReadWithContext
    \/ ReadTick
    \/ ReadCancelled
    \/ CtxCancel
    \/ Tick
    \/ CloseAsync
    \/ \E i \in 1..MaxCalls : AckFn(i)

\* ======================================================================
\* DynamoDB PartiQL writer: bulk write, partial-failure retry, degradation
\* to one statement per record
\* ======================================================================
\* ---------------------------------------------------------------- bounds
\* largest batch handed to Write
MaxBatch == 3
\* number of bulk attempts Write makes for per-record failures
MaxAttempts == 3

\* an error value: a message and the number it embeds
Err(msg, n) == [msg |-> msg, n |-> n]
NoErr == Err("none", 0)

NoResult == [kind |-> "none", base |-> NoErr, failed |-> {}]
NilResult == [kind |-> "nil", base |-> NoErr, failed |-> {}]
BatchError(base, failed) == [kind |-> "batch_error", base |-> base, failed |-> failed]

\* the batch as first sent: records 0..n-1 in order
WholeBatch(n) == [i \in 1..n |-> i - 1]

\* the outcomes of one bulk call on a batch of n statements: an outright error,
\* or the set of (attempt-local) indices whose response carries an error
BulkOutcomes(n) ==
    {[err |-> TRUE, failed |-> {}]}
        \cup {[err |-> FALSE, failed |-> F] : F \in SUBSET (0..(n - 1))}

\* the next attempt's batch: the records of p whose index is in F, in order
RetrySubsetAll(p, F) == p
RetrySubset(p, F) ==
    LET sub[i \in 0..Len(p)] ==
            IF i = 0 THEN <<>>
            ELSE IF (i - 1) \in F THEN Append(sub[i - 1], p[i]) ELSE sub[i - 1]
    IN  sub[Len(p)]

\* the original indices of the records of p that failed at local indices F
OriginalIndicesLocal(p, F) == F
OriginalIndices(p, F) == {p[i + 1] : i \in F}

\* the bulk call failed outright: degrade to one statement per record
DegradeOnAnyFailure(out) == out.err \/ out.failed # {}
Degrade(out) == out.err

\* the retry budget for per-record failures is used up
AttemptsUnbounded(a) == FALSE
AttemptsExhausted(a) == a >= MaxAttempts

\* the order in which the degraded path writes the records of p
IndividualOrderReversed(p) == [i \in 1..Len(p) |-> p[Len(p) + 1 - i]]
IndividualOrder(p) == p

\* the error Write returns after the degraded path
IndividualResultDropsFailures(base, failed) == NilResult
IndividualResult(base, failed) ==
    IF failed = {} THEN NilResult ELSE BatchError(base, failed)

DynamoInit ==
    /\ dpc = "idle"
    /\ msgLen = 0
    /\ pending = <<>>
    /\ attempts = 0
    /\ bulkCalls = <<>>
    /\ indivQueue = <<>>
    /\ indivCalls = <<>>
    /\ headline = NoErr
    /\ result = NoResult

\* Write is called with a batch of n records
DynamoWrite(n) ==
    /\ UNCHANGED <<bloblangVars, sftpVars, xorVars, azureVars>>
    /\ dpc \in {"idle", "done"}
    /\ dpc' = "bulk"
    /\ msgLen' = n
    /\ pending' = WholeBatch(n)
    /\ attempts' = 0
    /\ bulkCalls' = <<>>
    /\ indivQueue' = <<>>
    /\ indivCalls' = <<>>
    /\ headline' = NoErr
    /\ result' = NoResult

\* one bulk call on the pending batch and what Write does with its outcome
BatchExecuteStatement(out) ==
    /\ UNCHANGED <<bloblangVars, sftpVars, xorVars, azureVars>>
    /\ dpc = "bulk"
    /\ out \in BulkOutcomes(Len(pending))
    /\ bulkCalls' = Append(bulkCalls, [stmts |-> pending, out |-> out])
    /\ IF Degrade(out)
       THEN /\ dpc' = "individual"
            /\ headline' = Err("bulk call failed", 0)
            /\ indivQueue' = IndividualOrder(pending)
            /\ UNCHANGED <<pending, attempts, result>>
       ELSE IF out.failed = {}
       THEN /\ dpc' = "done"
            /\ result' = NilResult
            /\ UNCHANGED <<pending, attempts, indivQueue, headline>>
       ELSE IF AttemptsExhausted(attempts + 1)
       THEN /\ dpc' = "done"
            /\ attempts' = attempts + 1
            /\ result' = BatchError(Err("failed to process statements",
                                        Cardinality(out.failed)),
                                    OriginalIndices(pending, out.failed))
            /\ UNCHANGED <<pending, indivQueue, headline>>
       ELSE /\ attempts' = attempts + 1
            /\ pending' = RetrySubset(pending, out.failed)
            /\ UNCHANGED <<dpc, indivQueue, headline, result>>
    /\ UNCHANGED <<msgLen, indivCalls>>

\* one individual write on the degraded path; the last one makes Write return
ExecuteStatement(ok) ==
    /\ UNCHANGED <<bloblangVars, sftpVars, xorVars, azureVars>>
    /\ dpc = "individual"
    /\ indivQueue # <<>>
    /\ indivCalls' = Append(indivCalls, [rec |-> Head(indivQueue), ok |-> ok])
    /\ indivQueue' = Tail(indivQueue)
    /\ IF Tail(indivQueue) = <<>>
       THEN /\ dpc' = "done"
            /\ result' = IndividualResult(headline,
                   {indivCalls'[k].rec : k \in {j \in 1..Len(indivCalls') : ~indivCalls'[j].ok}})
       ELSE UNCHANGED <<dpc, result>>
    /\ UNCHANGED <<msgLen, pending, attempts, bulkCalls, headline>>

DynamoNext ==
    \/ \E n \in 1..MaxBatch : DynamoWrite(n)
    \/ \E out \in BulkOutcomes(MaxBatch) : BatchExecuteStatement(out)
    \/ \E ok \in BOOLEAN : ExecuteStatement(ok)

\* ======================================================================
\* SFTP writer
\* ======================================================================
\* ---------------------------------------------------------------- bounds
\* number of distinct file paths the records are written to
MaxPaths == 1
\* longest file contents kept on the server, in records
MaxFileLen == 2

\* initSFTPConnection: the dial loop stops after this many failed attempts
MaxConnectionAttempts == 10

Paths == 1..MaxPaths
Payloads == {"a", "b"}

\* initSFTPConnection: after a failed dial, the loop gives up
GiveUpLate(n) == n > MaxConnectionAttempts
GiveUp(n) == n >= MaxConnectionAttempts

\* no Connect call has been made
NoConnect == [before |-> "none", after |-> "none", ret |-> "none", dials |-> 0]

SFTPInit ==
    /\ spc = "dialing"
    /\ connectionAttempts = 0
    /\ connection_errors = 0
    /\ client_errors = 0
    /\ client = "nil"
    /\ sftpErr = "none"
    /\ exists \in SUBSET Paths
    /\ data = [p \in Paths |-> <<>>]
    /\ writeErr = "none"
    /\ connectLog = NoConnect

SFTPOff ==
    /\ spc = "failed"
    /\ connectionAttempts = 0
    /\ connection_errors = 0
    /\ client_errors = 0
    /\ client = "nil"
    /\ sftpErr = "none"
    /\ exists = {}
    /\ data = [p \in Paths |-> <<>>]
    /\ writeErr = "none"
    /\ connectLog = NoConnect

\* NewSFTP, one turn of the dial loop of initSFTPConnection: the dial fails and
\* the loop sleeps or gives up, or the dial succeeds and NewSFTP runs to its end
NewSFTPDial(dialOk, clientOk, fieldOk) ==
    /\ UNCHANGED <<bloblangVars, dynamoVars, xorVars, azureVars>>
    /\ spc = "dialing"
    /\ connectionAttempts' = connectionAttempts + 1
    /\ IF ~dialOk
       THEN /\ connection_errors' = connection_errors + 1
            /\ IF GiveUp(connectionAttempts')
               THEN spc' = "failed" /\ sftpErr' = "dial"
               ELSE UNCHANGED <<spc, sftpErr>>
            /\ UNCHANGED <<client_errors, client>>
       ELSE /\ client_errors' = IF clientOk THEN client_errors ELSE client_errors + 1
            /\ client' = IF clientOk THEN "live" ELSE "nil"
            /\ spc' = IF clientOk /\ fieldOk THEN "ready" ELSE "failed"
            /\ sftpErr' = IF ~clientOk THEN "client"
                          ELSE IF ~fieldOk THEN "filepath" ELSE "none"
            /\ UNCHANGED connection_errors
    /\ UNCHANGED <<exists, data, writeErr, connectLog>>

\* WriteWithContext, the write of one record: Stat, then MkdirAll and Create,
\* or OpenFile in append mode, then Write
SFTPWritePart(path, payload, statOk, mkdirOk, openOk, wrOk) ==
    /\ UNCHANGED <<bloblangVars, dynamoVars, xorVars, azureVars>>
    /\ spc = "ready"
    /\ client = "live" \/ (~statOk /\ ~mkdirOk)
    /\ path \in exists \/ ~statOk
    /\ Len(data[path]) < MaxFileLen \/ ~statOk
    /\ IF ~statOk
       THEN IF ~mkdirOk
            THEN writeErr' = "mkdir" /\ UNCHANGED <<exists, data>>
            ELSE IF ~openOk
            THEN writeErr' = "create" /\ UNCHANGED <<exists, data>>
            ELSE /\ exists' = exists \cup {path}
                 /\ data' = [data EXCEPT ![path] = IF wrOk THEN <<payload>> ELSE <<>>]
                 /\ writeErr' = IF wrOk THEN "nil" ELSE "write"
       ELSE IF ~openOk
            THEN writeErr' = "open" /\ UNCHANGED <<exists, data>>
            ELSE /\ data' = [data EXCEPT ![path] = IF wrOk THEN Append(@, payload) ELSE @]
                 /\ writeErr' = IF wrOk THEN "nil" ELSE "write"
                 /\ UNCHANGED exists
    /\ UNCHANGED <<spc, connectionAttempts, connection_errors, client_errors,
                   client, sftpErr, connectLog>>

\* Connect and ConnectWithContext: return nil
SFTPConnect ==
    /\ UNCHANGED <<bloblangVars, dynamoVars, xorVars, azureVars>>
    /\ spc = "ready"
    /\ connectLog' = [before |-> client, after |-> client, ret |-> "nil", dials |-> 0]
    /\ UNCHANGED <<spc, connectionAttempts, connection_errors, client_errors,
                   client, sftpErr, exists, data, writeErr>>

\* the connection behind the client handle drops
ConnectionLost ==
    /\ UNCHANGED <<bloblangVars, dynamoVars, xorVars, azureVars>>
    /\ spc = "ready"
    /\ client = "live"
    /\ client' = "lost"
    /\ UNCHANGED <<spc, connectionAttempts, connection_errors, client_errors,
                   sftpErr, exists, data, writeErr, connectLog>>

SFTPNext ==
    \/ SFTPConnect
    \/ ConnectionLost
    \/ \E dialOk, clientOk, fieldOk \in BOOLEAN : NewSFTPDial(dialOk, clientOk, fieldOk)
    \/ \E path \in Paths, payload \in Payloads, statOk, mkdirOk, openOk, wrOk \in BOOLEAN :
           SFTPWritePart(path, payload, statOk, mkdirOk, openOk, wrOk)

\* ======================================================================
\* xor condition
\* ======================================================================
\* the lists of child results: every sequence of at most MaxChildren booleans
ChildLists == UNION {[1..n -> BOOLEAN] : n \in 0..MaxChildren}

\* Check, on a child that passes: a second pass makes Check return false
XorOnPassParity(had) == [ret |-> FALSE, hadTrue |-> ~had]
XorOnPass(had) == [ret |-> had, hadTrue |-> TRUE]

XorInit ==
    /\ children \in ChildLists
    /\ xorIdx = 0
    /\ hadTrue = FALSE
    /\ got = "none"

XorOff ==
    /\ children = <<>>
    /\ xorIdx = 0
    /\ hadTrue = FALSE
    /\ got = "off"

\* Check evaluates the next child on the message
XorCheckChild ==
    /\ UNCHANGED <<bloblangVars, dynamoVars, sftpVars, azureVars>>
    /\ got = "none"
    /\ xorIdx < Len(children)
    /\ xorIdx' = xorIdx + 1
    /\ IF children[xorIdx + 1]
       THEN LET r == XorOnPass(hadTrue)
            IN  /\ hadTrue' = r.hadTrue
                /\ got' = IF r.ret THEN "false" ELSE "none"
       ELSE UNCHANGED <<hadTrue, got>>
    /\ UNCHANGED children

\* every child has been evaluated: Check returns
XorCheckReturn ==
    /\ UNCHANGED <<bloblangVars, dynamoVars, sftpVars, azureVars>>
    /\ got = "none"
    /\ xorIdx = Len(children)
    /\ got' = IF hadTrue THEN "true" ELSE "false"
    /\ UNCHANGED <<children, xorIdx, hadTrue>>

XorNext ==
    \/ XorCheckChild
    \/ XorCheckReturn

\* ======================================================================
\* Azure Blob Storage writer
\* ======================================================================
\* what a record's blob_type expression may evaluate to
BlobTypes == {"BLOCK", "APPEND", "OTHER"}

\* the batches: every sequence of at most MaxBatch blob types
AzureMessages == UNION {[1..n -> BlobTypes] : n \in 0..MaxBatch}

\* what an upload operation may answer
UploadOutcomes == {"nil", "ContainerNotFound", "error"}

\* uploadToBlob: only the two known blob types perform an upload
UploadToBlob(blobType, out) ==
    IF blobType \in {"BLOCK", "APPEND"}
    THEN [performed |-> TRUE, err |-> out]
    ELSE [performed |-> FALSE, err |-> "nil"]

ContainerNotFoundAny(err) == err # "nil"
ContainerNotFound(err) == err = "ContainerNotFound"

\* what c.Create did for a closure run: not called, succeeded or failed
CreateContainer(err, createOk) ==
    IF ContainerNotFound(err) THEN (IF createOk THEN "created" ELSE "failed")
    ELSE "none"

\* the closure returns the upload's error, whatever c.Create answered
ClosureReturn(err, created) == err

\* msg.Iter goes on to the next record only while the closure returns nil
IterStops(err) == err # "nil"

AzureNoResult == [kind |-> "none", err |-> "nil", failed |-> {}]
AzureNil == [kind |-> "nil", err |-> "nil", failed |-> {}]
AzureError(e) == [kind |-> "error", err |-> e, failed |-> {}]

AzureInit ==
    /\ credsOk \in BOOLEAN
    /\ azpc = "idle"
    /\ azMsg = <<>>
    /\ azIdx = 0
    /\ azLog = <<>>
    /\ azCreates = 0
    /\ azResult = AzureNoResult

AzureOff ==
    /\ credsOk = FALSE
    /\ azpc = "off"
    /\ azMsg = <<>>
    /\ azIdx = 0
    /\ azLog = <<>>
    /\ azCreates = 0
    /\ azResult = AzureNoResult

\* WriteWithContext is called with a batch; an empty batch returns at once
AzureWriteWithContext(m) ==
    /\ UNCHANGED <<bloblangVars, dynamoVars, sftpVars, xorVars>>
    /\ azpc \in {"idle", "done"}
    /\ azMsg' = m
    /\ azIdx' = 0
    /\ azLog' = <<>>
    /\ azCreates' = 0
    /\ IF Len(m) = 0
       THEN azpc' = "done" /\ azResult' = AzureNil
       ELSE azpc' = "iter" /\ azResult' = AzureNoResult
    /\ UNCHANGED credsOk

\* msg.Iter runs the closure on record azIdx; out is what the service answers
\* if an upload is performed, createOk whether a container Create succeeds
AzureIterPart(out, createOk) ==
    /\ UNCHANGED <<bloblangVars, dynamoVars, sftpVars, xorVars>>
    /\ azpc = "iter"
    /\ LET up  == IF credsOk THEN UploadToBlob(azMsg[azIdx + 1], out)
                  ELSE [performed |-> FALSE, err |-> "credentials"]
           created == IF up.performed THEN CreateContainer(up.err, createOk) ELSE "none"
           err == ClosureReturn(up.err, created)
           last == azIdx + 1 = Len(azMsg)
       IN  /\ azLog' = Append(azLog, [i |-> azIdx, performed |-> up.performed,
                                      upErr |-> up.err, created |-> created,
                                      err |-> err])
           /\ azCreates' = IF created # "none" THEN azCreates + 1 ELSE azCreates
           /\ IF IterStops(err)
              THEN azpc' = "done" /\ azResult' = AzureError(err) /\ UNCHANGED azIdx
              ELSE /\ azIdx' = azIdx + 1
                   /\ IF last
                      THEN azpc' = "done" /\ azResult' = AzureNil
                      ELSE UNCHANGED <<azpc, azResult>>
    /\ UNCHANGED <<credsOk, azMsg>>

AzureNext ==
    \/ \E m \in AzureMessages : AzureWriteWithContext(m)
    \/ \E out \in UploadOutcomes, createOk \in BOOLEAN : AzureIterPart(out, createOk)

vars == <<bloblangVars, dynamoVars, sftpVars, xorVars, azureVars>>

\* ---------------------------------------------------------- specifications
InitBloblang == BloblangInit /\ DynamoInit /\ SFTPOff /\ XorOff /\ AzureOff
BloblangSpec == InitBloblang /\ [][BloblangNext]_vars

\* a goroutine blocked in the select runs once one of its cases is ready
BloblangFairSpec == InitBloblang /\ [][BloblangNext]_vars
                    /\ WF_vars(ReadCancelled) /\ WF_vars(ReadTick)

\* the source in cron mode, with the wall clock running
InitCron == CronInit /\ DynamoInit /\ SFTPOff /\ XorOff /\ AzureOff
CronNext ==
    \/ ReadWithContext
    \/ ReadTick
    \/ ReadCancelled
    \/ CtxCancel
    \/ Tick
    \/ CloseAsync
    \/ AdvanceClock
CronSpec == InitCron /\ [][CronNext]_vars

\* the source read by several goroutines at once
InitConc == ConcInit /\ DynamoInit /\ SFTPOff /\ XorOff /\ AzureOff
ConcSpec == InitConc /\ [][ConcNext]_vars

InitDynamo == BloblangOff /\ DynamoInit /\ SFTPOff /\ XorOff /\ AzureOff
DynamoSpec == InitDynamo /\ [][DynamoNext]_vars

InitSFTP == BloblangOff /\ DynamoInit /\ SFTPInit /\ XorOff /\ AzureOff
SFTPSpec == InitSFTP /\ [][SFTPNext]_vars

InitXor == BloblangOff /\ DynamoInit /\ SFTPOff /\ XorInit /\ AzureOff
XorSpec == InitXor /\ [][XorNext]_vars

InitAzure == BloblangOff /\ DynamoInit /\ SFTPOff /\ XorOff /\ AzureInit
AzureSpec == InitAzure /\ [][AzureNext]_vars

\* ======================================================================
\* Properties of the Bloblang generator input (checked under BloblangSpec)
\* ======================================================================

\* C1: once a ReadWithContext call has returned Closed, every later call
\* returns Closed too, for a source with a configured count above zero.
ClosedIsTerminal ==
    count > 0 =>
        \A i, j \in 1..Len(calls) :
            (i < j /\ calls[i].err = "ErrTypeClosed") => calls[j].err = "ErrTypeClosed"

\* the calls 1..k returned without cancellation and without a mapping failure
CleanPrefix(k) == \A j \in 1..k : calls[j].why \in {"batch", "count"}

\* C2: with count = N > 0, read sequentially without cancellation or mapping
\* failure, each of the first N calls returns a batch and call N+1 returns Closed.
CountEmitsThenCloses ==
    count > 0 =>
        \A k \in 1..Len(calls) :
            CleanPrefix(k) =>
                /\ (k <= count => calls[k].err = "nil" /\ calls[k].msgLen = 1)
                /\ (k = count + 1 => calls[k].err = "ErrTypeClosed")

CountEmitsThenClosesWitness ==
    /\ count = 2
    /\ Len(calls) >= 3
    /\ CleanPrefix(3)
    /\ calls[1].why = "batch"
    /\ calls[2].why = "batch"
    /\ calls[3].err = "ErrTypeClosed"

\* C3: a call that ends because its context was cancelled leaves the remaining
\* count as it found it.
CancelKeepsCount ==
    \A k \in 1..Len(calls) :
        calls[k].why = "cancel" => calls[k].after = calls[k].before

\* C9: the acknowledgment function of a batch runs its effects at most once,
\* and a second invocation yields an outcome that differs from a normal success.
AckSecondCallDetected ==
    \A k \in 1..Len(calls) :
        Len(calls[k].acks) >= 2 =>
            /\ calls[k].acks[2] # "nil"
            /\ calls[k].acks[2] # calls[k].acks[1]

\* C10: with a timer, the first call passes without waiting for a tick, every
\* later call that returns a batch has received a tick, and no call but the
\* first passes without waiting.
FirstIsFree ==
    timer =>
        /\ (rpc = "waiting" => Len(calls) >= 1)
        /\ \A k \in 1..Len(calls) :
               /\ (k = 1 => calls[k].free /\ ~calls[k].ticked)
               /\ (k > 1 => ~calls[k].free)
               /\ (k > 1 /\ calls[k].why = "batch" => calls[k].ticked)

FirstIsFreeWitness ==
    /\ timer
    /\ Len(calls) >= 2
    /\ calls[1].free
    /\ calls[1].why = "batch"
    /\ calls[2].why = "batch"
    /\ calls[2].ticked

\* ======================================================================
\* Properties of the DynamoDB writer (checked under DynamoSpec)
\* ======================================================================

\* the original indices of the records a bulk call reported failed
FailedIn(call) == {call.stmts[i + 1] : i \in call.out.failed}

\* the sequence is strictly increasing: original relative order is kept
Increasing(q) == \A i, j \in 1..Len(q) : i < j => q[i] < q[j]

LastBulk == bulkCalls[Len(bulkCalls)]

\* C4: after a bulk attempt with per-record failures, the next bulk attempt
\* holds exactly the records reported failed, in their original order; if that
\* attempt succeeds, Write returns nil.
RetryHoldsExactlyTheFailed ==
    /\ \A k \in 1..Len(bulkCalls) :
           LET next == IF k < Len(bulkCalls) THEN bulkCalls[k + 1].stmts ELSE pending
           IN  (k < Len(bulkCalls) \/ dpc = "bulk") =>
                   /\ ~bulkCalls[k].out.err
                   /\ bulkCalls[k].out.failed # {}
                   /\ {next[i] : i \in 1..Len(next)} = FailedIn(bulkCalls[k])
                   /\ Len(next) = Cardinality(bulkCalls[k].out.failed)
                   /\ Increasing(next)
    /\ (dpc = "done" /\ ~LastBulk.out.err /\ LastBulk.out.failed = {})
           => result = NilResult

RetryHoldsExactlyTheFailedWitness ==
    /\ dpc = "done"
    /\ msgLen = 3
    /\ Len(bulkCalls) = 2
    /\ bulkCalls[1].stmts = <<0, 1, 2>>
    /\ bulkCalls[1].out.failed = {1}
    /\ bulkCalls[2].stmts = <<1>>
    /\ bulkCalls[2].out.failed = {}
    /\ result.kind = "nil"

\* C5: when per-record failures last until the attempts are used up, the Batch
\* Error names the records that failed on every attempt by their index in the
\* original batch, and names valid indices only.
ExhaustedNamesOriginalIndices ==
    (dpc = "done" /\ result.kind = "batch_error" /\ ~LastBulk.out.err) =>
        /\ result.failed \subseteq 0..(msgLen - 1)
        /\ result.failed # {}
        /\ result.failed =
               {r \in 0..(msgLen - 1) :
                    \A k \in 1..Len(bulkCalls) : r \in FailedIn(bulkCalls[k])}

ExhaustedNamesOriginalIndicesWitness ==
    /\ dpc = "done"
    /\ msgLen = 3
    /\ Len(bulkCalls) >= 2
    /\ bulkCalls[2].stmts = <<1>>
    /\ LastBulk.stmts = <<1>>
    /\ LastBulk.out.failed = {0}
    /\ result.kind = "batch_error"
    /\ result.failed = {1}

\* C6: after a bulk call that failed outright, every record of that call is
\* written individually, once and in order, no further bulk call is made, and
\* Write returns nil if all individual writes succeeded, otherwise a Batch
\* Error with the bulk call's error as base and exactly the failed records.
BulkErrorDegradesToIndividual ==
    (bulkCalls # <<>> /\ LastBulk.out.err) =>
        /\ \A k \in 1..(Len(bulkCalls) - 1) : ~bulkCalls[k].out.err
        /\ Len(indivCalls) <= Len(LastBulk.stmts)
        /\ \A k \in 1..Len(indivCalls) : indivCalls[k].rec = LastBulk.stmts[k]
        /\ (Len(bulkCalls) = 1 => LastBulk.stmts = [i \in 1..msgLen |-> i - 1])
        /\ dpc \in {"individual", "done"}
        /\ dpc = "done" =>
               /\ Len(indivCalls) = Len(LastBulk.stmts)
               /\ LET bad == {indivCalls[k].rec :
                                 k \in {j \in 1..Len(indivCalls) : ~indivCalls[j].ok}}
                  IN  IF bad = {} THEN result = NilResult
                      ELSE /\ result.kind = "batch_error"
                           /\ result.base = headline
                           /\ headline # NoErr
                           /\ result.failed = bad

BulkErrorDegradesToIndividualWitness ==
    /\ dpc = "done"
    /\ msgLen = 3
    /\ Len(bulkCalls) = 1
    /\ LastBulk.out.err
    /\ Len(indivCalls) = 3
    /\ indivCalls[1].ok /\ ~indivCalls[2].ok /\ indivCalls[3].ok
    /\ result.kind = "batch_error"
    /\ result.failed = {1}

\* C7: individual writes are made only after a bulk call failed outright; a
\* bulk call that succeeded or reported per-record failures is never followed
\* by an individual write, and the retries are bulk calls.
IndividualOnlyAfterOutrightFailure ==
    /\ (indivCalls # <<>> \/ dpc = "individual") =>
           (bulkCalls # <<>> /\ LastBulk.out.err)
    /\ (bulkCalls # <<>> /\ ~LastBulk.out.err) =>
           (indivCalls = <<>> /\ indivQueue = <<>> /\ dpc \in {"bulk", "done"})

IndividualOnlyAfterOutrightFailureWitness ==
    /\ dpc = "done"
    /\ Len(bulkCalls) = 2
    /\ bulkCalls[1].out.failed # {}
    /\ ~bulkCalls[2].out.err
    /\ indivCalls = <<>>

\* ======================================================================
\* Properties of the SFTP writer (checked under SFTPSpec)
\* ======================================================================

\* C8: when every dial fails, NewSFTP makes exactly 10 attempts and gives up
\* with an error, leaving no writer; from then on no dial and no operation on
\* the server is made.
DialGivesUpAfterTenAttempts ==
    /\ [](/\ sftpErr = "dial" =>
                /\ connectionAttempts = 10
                /\ connection_errors = 10
                /\ spc = "failed"
                /\ client = "nil"
          /\ (spc = "dialing" /\ connection_errors = connectionAttempts) =>
                connectionAttempts < 10)
    /\ [][sftpErr = "dial" => UNCHANGED sftpVars]_vars

DialGivesUpAfterTenAttemptsWitness ==
    /\ sftpErr = "dial"
    /\ spc = "failed"
    /\ connectionAttempts = 10
\* ======================================================================
\* Cancellation of a read (checked under BloblangSpec and BloblangFairSpec)
\* ======================================================================

\* C11: the outcome a cancelled ReadWithContext returns is returned for no
\* other reason (not when the mapping produced no record), and a cancelled
\* read never returns Closed.
CancelOutcomeIsDistinct ==
    \A i, j \in 1..Len(calls) :
        calls[i].why = "cancel" =>
            /\ calls[i].err # "ErrTypeClosed"
            /\ (calls[j].why # "cancel" => calls[j].err # calls[i].err)

\* C12: a call blocked in the wait returns once its context is cancelled, and
\* the return of a cancelled call carries a batch only if a tick was buffered.
CancelledReadReturns ==
    /\ (rpc = "waiting" /\ ctxDone) ~> (rpc = "idle")
    /\ [][(rpc = "waiting" /\ ctxDone /\ rpc' = "idle"
              /\ calls'[Len(calls')].msgLen > 0) => timerC = 1]_vars

CancelledReadReturnsWitness ==
    /\ rpc = "idle"
    /\ Len(calls) >= 2
    /\ calls[2].why = "cancel"
    /\ calls[2].msgLen = 0
\* C13: a Connect call made while the connection is not live runs the bounded
\* dial loop and installs a live handle; made while it is live, it is a no-op.
ConnectEnsuresConnected ==
    connectLog.ret # "none" =>
        /\ connectLog.after = "live"
        /\ (connectLog.before = "live" => connectLog.dials = 0)
        /\ (connectLog.before # "live" => connectLog.dials >= 1)

\* C14: the connection-error counter is incremented once per failed dial, and
\* when the loop gives up another counter is incremented exactly once.
GiveUpHasItsOwnCounter ==
    /\ (spc = "dialing" \/ sftpErr = "dial") => connection_errors = connectionAttempts
    /\ sftpErr = "dial" => client_errors = 1
\* ======================================================================
\* Cron rescheduling (checked under CronSpec)
\* ======================================================================

\* C15: in cron mode every emitted batch re-arms the timer with the time from
\* the wall clock of that emission to the first scheduled instant after it;
\* the timer then carries that duration.
CronRearmedFromNow ==
    schedule =>
        /\ \A k \in 1..Len(calls) :
               IF calls[k].why = "batch"
               THEN LET t == calls[k].at
                        d == calls[k].rearm
                    IN  /\ d > 0
                        /\ (t + d) \in Scheduled
                        /\ ~ \E s \in Scheduled : t < s /\ s < t + d
               ELSE calls[k].rearm = -1
        /\ \A k \in 1..Len(calls) :
               (calls[k].why = "batch"
                    /\ \A j \in (k + 1)..Len(calls) : calls[j].why # "batch")
                   => period = calls[k].rearm

CronRearmedFromNowWitness ==
    /\ schedule
    /\ Len(calls) >= 2
    /\ calls[1].why = "batch"
    /\ calls[2].why = "batch"
    /\ calls[1].at # calls[2].at
    /\ calls[1].rearm # calls[2].rearm

\* ======================================================================
\* Construction of the generator (checked under BloblangSpec)
\* ======================================================================

BatchHasOneRecord ==
    \A k \in 1..Len(calls) :
        IF calls[k].err = "nil"
        THEN calls[k].msgLen = 1 /\ calls[k].ack /\ calls[k].why = "batch"
        ELSE calls[k].msgLen = 0 /\ ~calls[k].ack

BatchHasOneRecordWitness ==
    /\ Len(calls) >= 3
    /\ \E k \in 1..Len(calls) : calls[k].err = "nil" /\ calls[k].msgLen = 1
    /\ \E k \in 1..Len(calls) : calls[k].err = "ErrTimeout" /\ calls[k].why = "nodata"
    /\ \E k \in 1..Len(calls) : calls[k].err = "ErrTypeClosed"
\* ======================================================================
\* Bounded retrying (checked under DynamoSpec)
\* ======================================================================

\* every bulk attempt so far reported per-record failures
EveryAttemptFailedSome ==
    \A k \in 1..Len(bulkCalls) : ~bulkCalls[k].out.err /\ bulkCalls[k].out.failed # {}

\* C16: a Write makes at most MaxAttempts bulk calls and at most one individual
\* call per record; when some record has failed on each of MaxAttempts attempts
\* the Write has returned, with a batch error naming it.
RetryIsBounded ==
    /\ Len(bulkCalls) <= MaxAttempts
    /\ attempts <= MaxAttempts
    /\ Len(indivCalls) <= msgLen
    /\ (Len(bulkCalls) = MaxAttempts /\ EveryAttemptFailedSome) =>
           /\ dpc = "done"
           /\ result.kind = "batch_error"
           /\ result.failed # {}
           /\ result.failed \subseteq 0..(msgLen - 1)

RetryIsBoundedWitness ==
    /\ Len(bulkCalls) = MaxAttempts
    /\ EveryAttemptFailedSome
    /\ dpc = "done"
    /\ result.kind = "batch_error"
    /\ msgLen >= 2
    /\ Len(bulkCalls[1].stmts) > Len(LastBulk.stmts)
\* ======================================================================
\* Properties of the xor condition (checked under XorSpec)
\* ======================================================================

\* the number of children that pass on the message
Passing == Cardinality({i \in 1..Len(children) : children[i]})

Uploaded == {azLog[j].i : j \in {n \in 1..Len(azLog) :
                                    azLog[n].performed /\ azLog[n].err = "nil"}}

\* C20: when WriteWithContext returns an error, record k being the one whose
\* error it is, exactly records 0..k-1 have been uploaded, no record after k
\* has been attempted, and the error is plain, with no per-index detail.
StopsAtFirstFailure ==
    (azpc = "done" /\ azResult.kind = "error") =>
        LET k == azLog[Len(azLog)].i
        IN  /\ \A j \in 1..Len(azLog) : azLog[j].i = j - 1
            /\ Uploaded = 0..(k - 1)
            /\ \A j \in 1..Len(azLog) : azLog[j].i <= k
            /\ azResult.err = azLog[Len(azLog)].err
            /\ azResult.failed = {}
\* C21: WriteWithContext returns nil only if an upload was performed, and
\* succeeded, for every record of the batch.
NilMeansAllUploaded ==
    (azpc = "done" /\ azResult.kind = "nil") =>
        \A i \in 0..(Len(azMsg) - 1) : i \in Uploaded

\* C22: a closure run whose upload failed with ContainerNotFound calls the
\* container's Create once and returns the upload's error, whether Create
\* succeeded or not, without uploading the record again; a run whose upload
\* failed otherwise, or did not fail, calls no Create.
CreateKeepsUploadError ==
    /\ \A j \in 1..Len(azLog) :
           /\ azLog[j].i = j - 1
           /\ azLog[j].err = azLog[j].upErr
           /\ (azLog[j].created # "none") <=> (azLog[j].upErr = "ContainerNotFound")
    /\ azCreates = Cardinality({j \in 1..Len(azLog) : azLog[j].upErr = "ContainerNotFound"})
    /\ azCreates <= 1
    /\ azCreates = 1 =>
           /\ azpc = "done"
           /\ azResult = AzureError("ContainerNotFound")
           /\ azLog[Len(azLog)].created # "none"

CreateKeepsUploadErrorWitness ==
    /\ azpc = "done"
    /\ Len(azLog) >= 2
    /\ azLog[Len(azLog)].created = "created"
    /\ azResult = AzureError("ContainerNotFound")
    /\ azLog[1].performed
\* ======================================================================
\* Shutdown of the generator (checked under BloblangSpec)
\* ======================================================================

\* C23: no ReadWithContext call made after CloseAsync on a timer-driven source
\* returns a batch.
NoBatchAfterClose ==
    closedAt # -1 =>
        \A k \in 1..Len(calls) : k > closedAt => calls[k].why # "batch"
\* C25: a source constructed with count <= 0 has the remaining count -1 for
\* ever, and none of its calls returns Closed because of the count.
UnlimitedStaysUnlimited ==
    (count <= 0 /\ newErr = "none") =>
        /\ remaining = -1
        /\ \A k \in 1..Len(calls) :
               /\ calls[k].why # "count"
               /\ calls[k].before = -1
               /\ calls[k].after = -1

UnlimitedStaysUnlimitedWitness ==
    /\ count = 0
    /\ newErr = "none"
    /\ Len(calls) = MaxCalls
    /\ \A k \in 1..Len(calls) : calls[k].why = "batch"
\* ======================================================================
\* Properties of the SFTP writer's data path (checked under SFTPSpec)
\* ======================================================================

\* s is an initial segment of t
IsPrefix(s, t) == Len(s) <= Len(t) /\ \A i \in 1..Len(s) : s[i] = t[i]

\* C26: no step of a write destroys existing data: the contents of a file that
\* exists are kept, and what a write adds comes after them.
WriteKeepsExistingData ==
    [][\A p \in Paths : p \in exists => IsPrefix(data[p], data'[p])]_vars
\* ======================================================================
\* Concurrent readers of the generator (checked under ConcSpec)
\* ======================================================================

\* the calls that returned a batch
Batches == {k \in 1..Len(calls) : calls[k].why = "batch"}

\* C24: with count = N > 0 the callers together receive at most N batches, and
\* no call finds the remaining count negative, which would let it pass as on an
\* unlimited source.
ConcurrentCountHolds ==
    count > 0 =>
        /\ Cardinality(Batches) <= count
        /\ \A k \in 1..Len(calls) : calls[k].before >= 0
        /\ \A c \in Callers : readers[c].pc # "idle" => readers[c].before >= 0
====
